---- MODULE Spec2Model ----
(***************************************************************************)
(* Model of modules/transforms/liftings/lifting.py: the lifting base       *)
(* class (strategy resolution at construction, the forward pipeline) and   *)
(* the graph variant's reconstruction helper _generate_graph_from_data.    *)
(*                                                                         *)
(* One lifting instance is followed through its life: it is constructed    *)
(* (or its construction fails), then forward and, for a GraphLifting,      *)
(* _generate_graph_from_data are called on it any number of times.  Each   *)
(* call is one atomic step (the code is synchronous); the finished call    *)
(* stays visible in op/arg/ret until the caller takes the result.          *)
(***************************************************************************)
EXTENDS Integers, Sequences, FiniteSets, TLC

VARIABLES
    ctor,      \* the constructor call made so far (arguments and outcome)
    self,      \* the instance's attribute dictionary (__dict__)
    lookups,   \* number of FEATURE_LIFTINGS[...] subscriptions evaluated
    allocated, \* number of strategy objects instantiated
    op,        \* the call that has just finished: "idle", "forward", "build_graph"
    arg,       \* its argument
    ret        \* its outcome and returned value

vars == <<ctor, self, lookups, allocated, op, arg, ret>>

----------------------------------------------------------------------------
(* Bounds of the model *)

\* node-feature matrices have 0..MaxNodes rows
MaxNodes == 3
\* edge-index tensors have 0..MaxEdges columns
MaxEdges == 2
\* field values of data records and descriptors are 1..MaxVal
MaxVal == 2

\* edge-attribute values (one feature per edge); 5 and 9 as in the scenarios
AttrVals == {5, 9}

----------------------------------------------------------------------------
(* Python values *)

\* the key None of the registry / the argument feature_lifting=None
NoneKey == "<None>"
\* an argument left out of the constructor call
Omitted == "<omitted>"

\* a dict with string keys: a function from its key set
EmptyRecord == [k \in {} |-> 0]

\* **a, **b in one call: the keyword sets must be disjoint
Collides(a, b) == (DOMAIN a) \cap (DOMAIN b) # {}

KeywordUnion(a, b) ==
    [k \in (DOMAIN a) \cup (DOMAIN b) |-> IF k \in DOMAIN a THEN a[k] ELSE b[k]]

\* f with key k bound to v (d[k] = v)
Bind(f, k, v) == [x \in (DOMAIN f) \cup {k} |-> IF x = k THEN v ELSE f[x]]

----------------------------------------------------------------------------
(* The registry and the strategies *)

FEATURE_LIFTINGS ==
    [k \in {"SumLifting", NoneKey} |->
        IF k = "SumLifting" THEN "SumLifting" ELSE "IdentityTransform"]

\* IdentityTransform()(data): the descriptor unchanged
IdentityTransform(topology) == topology

\* SumLifting()(data): the descriptor enriched with the rank-1 feature
\* tensor, aggregated from the rank-0 features over the incidence
SumLifting(topology) ==
    IF /\ "incidence_1" \in DOMAIN topology
       /\ "x_0" \in DOMAIN topology
       /\ "x_1" \notin DOMAIN topology
    THEN Bind(topology, "x_1", topology["incidence_1"] * topology["x_0"])
    ELSE topology

\* strategy(topology) for a strategy object
CallStrategy(strategy, topology) ==
    IF strategy.cls = "SumLifting" THEN SumLifting(topology)
    ELSE IdentityTransform(topology)

NoStrategy == [cls |-> "none", id |-> 0]

----------------------------------------------------------------------------
(* Construction *)

\* the class whose __init__ runs; the instance is of a concrete subclass,
\* whose lift_topology returns the descriptor forward is given
Classes == {"AbstractLifting", "GraphLifting", "PointCloudLifting",
            "CellComplexLifting", "SimplicialLifting", "HypergraphLifting",
            "CombinatorialLifting"}

\* the default of the feature_lifting parameter, per class
DefaultFeatureLifting(cls) ==
    IF cls = "AbstractLifting" THEN NoneKey ELSE "SumLifting"

\* the attribute dictionary before __init__ has set anything
NoSelf == [keys |-> {}, feature_lifting |-> NoStrategy,
           preserve_edge_attr |-> FALSE, contains_edge_attr |-> FALSE]

\* mutant: the lookup put off until the strategy is first needed
AbstractLifting__init__deferred(feature_lifting, nalloc) ==
    [outcome |-> "ok",
     self |-> [NoSelf EXCEPT !.keys = {"feature_lifting"}],
     lookups |-> 0, allocated |-> 0]

\* AbstractLifting.__init__: one registry lookup, one instantiation
AbstractLifting__init__(feature_lifting, nalloc) ==
    IF feature_lifting \notin DOMAIN FEATURE_LIFTINGS
    THEN [outcome |-> "KeyError", self |-> NoSelf, lookups |-> 1, allocated |-> 0]
    ELSE [outcome |-> "ok",
          self |-> [NoSelf EXCEPT
                      !.keys = {"feature_lifting"},
                      !.feature_lifting =
                          [cls |-> FEATURE_LIFTINGS[feature_lifting],
                           id |-> nalloc + 1]],
          lookups |-> 1, allocated |-> 1]

\* GraphLifting.__init__: the base constructor, then preserve_edge_attr
GraphLifting__init__(feature_lifting, preserve_edge_attr, nalloc) ==
    LET base == AbstractLifting__init__(feature_lifting, nalloc) IN
    IF base.outcome # "ok" THEN base
    ELSE [base EXCEPT
            !.self.keys = @ \cup {"preserve_edge_attr"},
            !.self.preserve_edge_attr = preserve_edge_attr]

\* the value the parameter feature_lifting takes in the call
EffectiveFeatureLifting(cls, feature_lifting) ==
    IF feature_lifting = Omitted THEN DefaultFeatureLifting(cls)
    ELSE feature_lifting

\* cls(feature_lifting=..., preserve_edge_attr=...)
Instantiate(cls, feature_lifting, preserve_edge_attr, nalloc) ==
    LET fl == EffectiveFeatureLifting(cls, feature_lifting) IN
    IF cls = "GraphLifting"
    THEN GraphLifting__init__(fl, preserve_edge_attr, nalloc)
    ELSE AbstractLifting__init__(fl, nalloc)

----------------------------------------------------------------------------
(* forward *)

\* the field names of the data records and descriptors of the model
DataFields == {"x", "x_0", "x_1"}
TopologyKeys == {"x_0", "incidence_1", "x_1"}
Vals == 1..MaxVal

Records(names) == UNION {[S -> Vals] : S \in SUBSET names}

\* mutant: the record built from the lifted topology alone
forward_without_initial(slf, data, topology) ==
    LET lifted_topology == CallStrategy(slf.feature_lifting, topology)
    IN  [outcome |-> "ok", data |-> lifted_topology,
         enriched |-> lifted_topology,
         invoked |-> <<slf.feature_lifting>>, lookups |-> 0,
         allocated |-> 0, self |-> slf]

\* mutant: the strategy looked up and instantiated again on every call
forward_resolving(slf, data, topology) ==
    LET again == [cls |-> slf.feature_lifting.cls,
                  id |-> slf.feature_lifting.id + 1]
        lifted_topology == CallStrategy(again, topology)
    IN  [outcome |-> IF Collides(data, lifted_topology) THEN "TypeError" ELSE "ok",
         data |-> IF Collides(data, lifted_topology) THEN EmptyRecord
                  ELSE KeywordUnion(data, lifted_topology),
         enriched |-> lifted_topology,
         invoked |-> <<again>>, lookups |-> 1,
         allocated |-> 1, self |-> slf]

\* AbstractLifting.forward; topology is what lift_topology(data) returned
forward(slf, data, topology) ==
    LET initial_data == data
        lifted_topology == CallStrategy(slf.feature_lifting, topology)
    IN  IF Collides(initial_data, lifted_topology)
        THEN [outcome |-> "TypeError", data |-> EmptyRecord,
              enriched |-> lifted_topology,
              invoked |-> <<slf.feature_lifting>>, lookups |-> 0,
              allocated |-> 0, self |-> slf]
        ELSE [outcome |-> "ok",
              data |-> KeywordUnion(initial_data, lifted_topology),
              enriched |-> lifted_topology,
              invoked |-> <<slf.feature_lifting>>, lookups |-> 0,
              allocated |-> 0, self |-> slf]

----------------------------------------------------------------------------
(* Tensors and attribute dictionaries of the graph helper *)

\* a tensor: its shape and its entries in row-major order
Tensor(shape, data) == [shape |-> shape, data |-> data]
NoTensor == Tensor(<<>>, <<>>)
\* one row of a matrix with a single column
Row(v) == Tensor(<<1>>, <<v>>)

\* an attribute dict of a node or an edge: its keys and their values
EmptyDict == [keys |-> {}, features |-> NoTensor, dim |-> -1]
Dict(features, dim) ==
    [keys |-> {"features", "dim"}, features |-> features, dim |-> dim]
\* a.update(b)
Update(a, b) ==
    [keys |-> a.keys \cup b.keys,
     features |-> IF "features" \in b.keys THEN b.features ELSE a.features,
     dim |-> IF "dim" \in b.keys THEN b.dim ELSE a.dim]

\* data.edge_attr is None
NoEdgeAttr == [present |-> FALSE, rows |-> <<>>]
EdgeAttr(rows) == [present |-> TRUE, rows |-> rows]

----------------------------------------------------------------------------
(* torch_geometric.utils.undirected, as called at lines 136-138 *)

SeqMax(s) == IF s = <<>> THEN -1
             ELSE CHOOSE m \in {s[k] : k \in DOMAIN s} :
                    \A k \in DOMAIN s : s[k] <= m

\* maybe_num_nodes(edge_index): the largest endpoint plus one
NumNodes(edge_index) ==
    SeqMax([k \in DOMAIN edge_index |->
              IF edge_index[k][1] >= edge_index[k][2]
              THEN edge_index[k][1] ELSE edge_index[k][2]]) + 1

\* the sort key of sort_edge_index
SortKey(e, n, sort_by_row) ==
    IF sort_by_row THEN e[1] * n + e[2] ELSE e[2] * n + e[1]

\* the orders a sort may leave keys in; equal keys in any order
SortPerms(keys) ==
    {p \in Permutations(DOMAIN keys) :
        \A a, b \in DOMAIN keys : a < b => keys[p[a]] <= keys[p[b]]}

Permute(s, p) == [k \in DOMAIN s |-> s[p[k]]]

\* sort_edge_index(edge_index, edge_attr, num_nodes, sort_by_row): the
\* sorted columns and their attributes, for every order the sort may leave
\* equal keys in
sort_edge_index(edge_index, edge_attr, n, sort_by_row) ==
    {[index |-> Permute(edge_index, p), attrs |-> Permute(edge_attr, p)] :
        p \in SortPerms([k \in DOMAIN edge_index |->
                            SortKey(edge_index[k], n, sort_by_row)])}

\* is_undirected(edge_index, edge_attr): sort by row, sort that by column,
\* compare the two with endpoints swapped, and the attributes.  The set
\* holds the answer for every outcome of the two sorts.
is_undirected(edge_index, edge_attr) ==
    UNION { UNION {
        { /\ \A k \in DOMAIN s1.index :
                /\ s1.index[k][1] = s2.index[k][2]
                /\ s1.index[k][2] = s2.index[k][1]
          /\ s1.attrs = s2.attrs
          : s2 \in sort_edge_index(s1.index, s1.attrs, n, FALSE) }
        : s1 \in sort_edge_index(edge_index, edge_attr, n, TRUE) }
        : n \in {NumNodes(edge_index)} }

\* the sum of the attributes listed under the key y
RECURSIVE SumAt(_, _, _, _)
SumAt(keys, attr, y, k) ==
    IF k = 0 THEN 0
    ELSE (IF keys[k] = y THEN attr[k] ELSE 0) + SumAt(keys, attr, y, k - 1)

\* the elements of a set of numbers in increasing order
Sorted(S) ==
    <<>> \o [r \in 1..Cardinality(S) |->
                CHOOSE y \in S : Cardinality({x \in S : x < y}) = r - 1]

\* coalesce(edge_index, edge_attr, reduce="add"): the distinct columns in
\* the order of their keys row * num_nodes + col, each with the sum of the
\* attributes listed for it
coalesce(keys, attr, n) ==
    CHOOSE t \in
      { << Tensor(<<2, Len(sorted)>>,
                  [k \in DOMAIN sorted |-> sorted[k] \div n]
                    \o [k \in DOMAIN sorted |-> sorted[k] % n]),
           Tensor(<<Len(sorted), 1>>,
                  [k \in DOMAIN sorted |->
                      SumAt(keys, attr, sorted[k], Len(keys))]) >>
        : sorted \in {Sorted({keys[k] : k \in DOMAIN keys})} } : TRUE

\* to_undirected(edge_index, edge_attr): both directions of every edge,
\* coalesced; returns the pair (edge_index, edge_attr)
to_undirected(edge_index, edge_attr) ==
    CHOOSE t \in
      { coalesce(<<>> \o [k \in DOMAIN index |-> SortKey(index[k], n, TRUE)],
                 attr, n) :
          index \in {edge_index \o [k \in DOMAIN edge_index |->
                                      <<edge_index[k][2], edge_index[k][1]>>]},
          attr \in {edge_attr \o edge_attr},
          n \in {NumNodes(edge_index)} } : TRUE

----------------------------------------------------------------------------
(* networkx.Graph, as used at lines 151-153 *)

\* nx.Graph(): node -> attribute dict, and adj -> neighbour -> edge dict
EmptyGraph == [node |-> [n \in {} |-> EmptyDict],
               adj |-> [n \in {} |-> [m \in {} |-> EmptyDict]]]

NoNeighbours == [m \in {} |-> EmptyDict]

\* the node n created on first mention
Touch(G, n) ==
    IF n \in DOMAIN G.node THEN G
    ELSE [node |-> Bind(G.node, n, EmptyDict),
          adj |-> Bind(G.adj, n, NoNeighbours)]

\* Graph.add_nodes_from: each (n, dict) creates n and updates its dict
RECURSIVE add_nodes_from(_, _)
add_nodes_from(G, nodes) ==
    IF nodes = <<>> THEN G
    ELSE LET n == Head(nodes)[1]
             G1 == Touch(G, n)
         IN  add_nodes_from(
                 [G1 EXCEPT !.node[n] = Update(@, Head(nodes)[2])],
                 Tail(nodes))

\* mutant: the edge stored under adj[u][v] only, as a directed graph would
add_edge_directed(G, e) ==
    LET u == e[1]
        v == e[2]
        G1 == Touch(Touch(G, u), v)
        old == IF v \in DOMAIN G1.adj[u] THEN G1.adj[u][v] ELSE EmptyDict
    IN  [G1 EXCEPT !.adj = Bind(G1.adj, u, Bind(G1.adj[u], v, Update(old, e[3])))]

\* one edge (u, v, dd) of add_edges_from: the dict already on the edge is
\* updated and stored under both adj[u][v] and adj[v][u]
add_edge(G, e) ==
    LET u == e[1]
        v == e[2]
        G1 == Touch(Touch(G, u), v)
        old == IF v \in DOMAIN G1.adj[u] THEN G1.adj[u][v] ELSE EmptyDict
        datadict == Update(old, e[3])
        adjU == Bind(G1.adj, u, Bind(G1.adj[u], v, datadict))
    IN  [G1 EXCEPT !.adj = Bind(adjU, v, Bind(adjU[v], u, datadict))]

\* mutant: self-loops dropped
RECURSIVE add_edges_from_no_loops(_, _)
add_edges_from_no_loops(G, edges) ==
    IF edges = <<>> THEN G
    ELSE IF Head(edges)[1] = Head(edges)[2]
         THEN add_edges_from_no_loops(G, Tail(edges))
         ELSE add_edges_from_no_loops(add_edge(G, Head(edges)), Tail(edges))

\* Graph.add_edges_from; a plain pair (u, v) is the edge (u, v, {})
RECURSIVE add_edges_from(_, _)
add_edges_from(G, edges) ==
    IF edges = <<>> THEN G
    ELSE add_edges_from(add_edge(G, Head(edges)), Tail(edges))

\* Graph.edges: the edges of G as unordered endpoint sets
EdgeSet(G) == UNION {{{u, v} : v \in DOMAIN G.adj[u]} : u \in DOMAIN G.adj}

\* Graph.has_edge(u, v)
has_edge(G, u, v) == u \in DOMAIN G.adj /\ v \in DOMAIN G.adj[u]

\* Graph.number_of_edges(): half the degree sum, a self-loop counting twice
RECURSIVE DegreeSum(_, _)
DegreeSum(G, ns) ==
    IF ns = {} THEN 0
    ELSE LET n == CHOOSE x \in ns : TRUE IN
         Cardinality(DOMAIN G.adj[n])
           + (IF n \in DOMAIN G.adj[n] THEN 1 ELSE 0)
           + DegreeSum(G, ns \ {n})
number_of_edges(G) == DegreeSum(G, DOMAIN G.adj) \div 2

----------------------------------------------------------------------------
(* GraphLifting *)

\* GraphLifting._data_has_edge_attr
_data_has_edge_attr(data) == data.edge_attr.present

\* the value lines 136-138 bind to edge_attr, as the sequence of its items.
\* The conditional expression binds tighter than the comma, so edge_index is
\* always data.edge_index, and edge_attr is data.edge_attr (its rows) when
\* the edges are undirected and otherwise the whole pair returned by
\* to_undirected: a tuple of two tensors.
bound_edge_attr(data, undirected) ==
    IF undirected
    THEN [k \in DOMAIN data.edge_attr.rows |-> Row(data.edge_attr.rows[k])]
    ELSE to_undirected(data.edge_index, data.edge_attr.rows)

\* lines 139-142: one entry per column, edge_attr[edge_idx] as its features
attributed_edges(edge_index, edge_attr) ==
    IF Len(edge_index) > Len(edge_attr)
    THEN [outcome |-> "IndexError", edges |-> <<>>]
    ELSE [outcome |-> "ok",
          edges |-> [k \in DOMAIN edge_index |->
                       <<edge_index[k][1], edge_index[k][2],
                         Dict(edge_attr[k], 1)>>]]

\* mutant: the plain pairs given a dim tag
plain_edges_tagged(edge_index) ==
    [k \in DOMAIN edge_index |->
        <<edge_index[k][1], edge_index[k][2],
          [keys |-> {"dim"}, features |-> NoTensor, dim |-> 1]>>]

\* lines 146-149: the plain pairs
plain_edges(edge_index) ==
    [k \in DOMAIN edge_index |-> <<edge_index[k][1], edge_index[k][2], EmptyDict>>]

\* mutant: nodes tagged with the edges' dimension
node_entries_dim1(x) == [n \in DOMAIN x |-> <<n - 1, Dict(Row(x[n]), 1)>>]

\* line 132
node_entries(x) == [n \in DOMAIN x |-> <<n - 1, Dict(Row(x[n]), 0)>>]

\* lines 151-154
build(nodes, edges) == add_edges_from(add_nodes_from(EmptyGraph, nodes), edges)

\* mutant: the flag written to preserve_edge_attr
set_preserve_edge_attr(slf, value) ==
    [slf EXCEPT !.keys = @ \cup {"preserve_edge_attr"},
                !.preserve_edge_attr = value]

\* self.contains_edge_attr = value
set_contains_edge_attr(slf, value) ==
    [slf EXCEPT !.keys = @ \cup {"contains_edge_attr"},
                !.contains_edge_attr = value]

\* GraphLifting._generate_graph_from_data; undirected is the answer
\* is_undirected gave (read only when the attributes are preserved)
_generate_graph_from_data(slf, data, undirected) ==
    IF slf.preserve_edge_attr /\ _data_has_edge_attr(data)
    THEN LET made == attributed_edges(data.edge_index,
                                      bound_edge_attr(data, undirected))
         IN  IF made.outcome # "ok"
             THEN [outcome |-> made.outcome, graph |-> EmptyGraph, self |-> slf]
             ELSE [outcome |-> "ok",
                   graph |-> build(node_entries(data.x), made.edges),
                   self |-> set_contains_edge_attr(slf, TRUE)]
    ELSE [outcome |-> "ok",
          graph |-> build(node_entries(data.x), plain_edges(data.edge_index)),
          self |-> set_contains_edge_attr(slf, FALSE)]

\* the inputs of the model: a matrix of N feature rows (row n holds 10 + n),
\* E columns of endpoints among the rows, and edge attributes or none
FeatureMatrix(N) == [n \in 1..N |-> 9 + n]
EdgeIndexes(N, E) == [1..E -> (0..(N - 1)) \X (0..(N - 1))]
EdgeAttrs(E) == {NoEdgeAttr} \cup {EdgeAttr(rows) : rows \in [1..E -> AttrVals]}

----------------------------------------------------------------------------
(* The state machine *)

NoCtor == [called |-> FALSE, cls |-> "none", feature_lifting |-> Omitted,
           preserve_edge_attr |-> FALSE, outcome |-> "none"]

Init ==
    /\ ctor = NoCtor
    /\ self = NoSelf
    /\ lookups = 0
    /\ allocated = 0
    /\ op = "idle"
    /\ arg = <<>>
    /\ ret = <<>>

Constructed == ctor.called /\ ctor.outcome = "ok"

Construct ==
    /\ ~ctor.called
    /\ \E cls \in Classes, fl \in {Omitted, "SumLifting", NoneKey, "Bogus"},
          pea \in BOOLEAN :
        /\ (cls # "GraphLifting" => pea = FALSE)
        /\ \E r \in {Instantiate(cls, fl, pea, allocated)} :
            /\ ctor' = [called |-> TRUE, cls |-> cls,
                        feature_lifting |-> EffectiveFeatureLifting(cls, fl),
                        preserve_edge_attr |-> pea, outcome |-> r.outcome]
            /\ self' = r.self
            /\ lookups' = lookups + r.lookups
            /\ allocated' = allocated + r.allocated
    /\ UNCHANGED <<op, arg, ret>>

Forward ==
    /\ Constructed
    /\ op = "idle"
    /\ \E data \in Records(DataFields), topology \in Records(TopologyKeys) :
        \E r \in {forward(self, data, topology)} :
        /\ op' = "forward"
        /\ arg' = [data |-> data, topology |-> topology]
        /\ ret' = [outcome |-> r.outcome, data |-> r.data,
                   enriched |-> r.enriched, invoked |-> r.invoked]
        /\ self' = r.self
        /\ lookups' = lookups + r.lookups
        /\ allocated' = allocated + r.allocated
    /\ UNCHANGED ctor

BuildGraph ==
    /\ Constructed
    /\ ctor.cls = "GraphLifting"
    /\ op = "idle"
    /\ \E N \in 0..MaxNodes, E \in 0..MaxEdges :
        \E edge_index \in EdgeIndexes(N, E), edge_attr \in EdgeAttrs(E) :
        LET data == [x |-> FeatureMatrix(N), edge_index |-> edge_index,
                     edge_attr |-> edge_attr] IN
        \E undirected \in
              (IF self.preserve_edge_attr /\ _data_has_edge_attr(data)
               THEN is_undirected(data.edge_index, data.edge_attr.rows)
               ELSE {FALSE}) :
        \E r \in {_generate_graph_from_data(self, data, undirected)} :
        /\ op' = "build_graph"
        /\ arg' = data
        /\ ret' = [outcome |-> r.outcome, graph |-> r.graph]
        /\ self' = r.self
    /\ UNCHANGED <<ctor, lookups, allocated>>

\* the caller takes the result (or the exception) of the finished call
Return ==
    /\ op # "idle"
    /\ op' = "idle"
    /\ arg' = <<>>
    /\ ret' = <<>>
    /\ UNCHANGED <<ctor, self, lookups, allocated>>

Next == Construct \/ Forward \/ BuildGraph \/ Return

Spec == Init /\ [][Next]_vars

----------------------------------------------------------------------------
(* Vocabulary of the properties *)

ForwardReturned == op = "forward" /\ ret.outcome = "ok"
GraphReturned == op = "build_graph" /\ ret.outcome = "ok"

\* the call took the attribute-preserving branch
Preserving == self.preserve_edge_attr /\ arg.edge_attr.present

\* the unordered endpoint pairs listed by the columns of an edge index
ListedPairs(edge_index) ==
    {{edge_index[k][1], edge_index[k][2]} : k \in DOMAIN edge_index}

\* every column (i,j) with attribute a has a column (j,i) with attribute a
SetSymmetric(edge_index, rows) ==
    \A k \in DOMAIN edge_index : \E m \in DOMAIN edge_index :
        /\ edge_index[m] = <<edge_index[k][2], edge_index[k][1]>>
        /\ rows[m] = rows[k]

\* all columns joining the same two nodes carry the same attribute
Matching(edge_index, rows) ==
    \A k, m \in DOMAIN edge_index :
        {edge_index[k][1], edge_index[k][2]} = {edge_index[m][1], edge_index[m][2]}
            => rows[k] = rows[m]

----------------------------------------------------------------------------
(* C1: field preservation.  In every record forward returns, each field of *)
(* the input record is present with its input value, unless the descriptor *)
(* returned by lift_topology has a key of the same name.                   *)
FieldPreservation ==
    ForwardReturned =>
        \A f \in DOMAIN arg.data :
            \/ f \in DOMAIN arg.topology
            \/ (f \in DOMAIN ret.data /\ ret.data[f] = arg.data[f])

\* a returned record for an input with fields and a non-empty descriptor
FieldPreservationWitness ==
    /\ ForwardReturned
    /\ {"x", "x_0"} \subseteq DOMAIN arg.data
    /\ "incidence_1" \in DOMAIN arg.topology
    /\ ret.data["x"] = arg.data["x"]

(* C2: collision precedence.  When a field name of the input record is     *)
(* also a key of the enriched descriptor, forward returns the union of the *)
(* two field sets, the colliding name carrying the descriptor's value.     *)
CollisionPrecedence ==
    (op = "forward" /\ Collides(arg.data, ret.enriched)) =>
        /\ ret.outcome = "ok"
        /\ ret.data = [k \in (DOMAIN arg.data) \cup (DOMAIN ret.enriched) |->
                         IF k \in DOMAIN ret.enriched THEN ret.enriched[k]
                         ELSE arg.data[k]]

(* C3: fail fast.  A constructor call whose feature_lifting is no key of   *)
(* the registry ends in the lookup error, leaves no instance behind, and   *)
(* no forward or build_graph call ever starts on it.                       *)
FailFast ==
    (ctor.called /\ ctor.feature_lifting \notin DOMAIN FEATURE_LIFTINGS) =>
        /\ ctor.outcome = "KeyError"
        /\ self = NoSelf
        /\ op = "idle"

\* the constructor was called with the unknown name and failed
FailFastWitness ==
    /\ ctor.called
    /\ ctor.feature_lifting = "Bogus"
    /\ ctor.outcome = "KeyError"

(* C4: reverse-edge synthesis.  With attributes preserved and an edge set  *)
(* that is not symmetric, build_graph completes and, for every column      *)
(* (i,j) with attribute a, the graph has (i,j) and (j,i), both with dim 1  *)
(* and features a.                                                         *)
ReverseEdgeSynthesis ==
    (/\ op = "build_graph"
     /\ Preserving
     /\ ~SetSymmetric(arg.edge_index, arg.edge_attr.rows)) =>
        /\ ret.outcome = "ok"
        /\ \A k \in DOMAIN arg.edge_index :
            LET i == arg.edge_index[k][1]
                j == arg.edge_index[k][2]
                expected == Dict(Row(arg.edge_attr.rows[k]), 1)
            IN  /\ has_edge(ret.graph, i, j)
                /\ has_edge(ret.graph, j, i)
                /\ ret.graph.adj[i][j] = expected
                /\ ret.graph.adj[j][i] = expected

(* C5: dimension tagging.  As claimed: in every returned graph every node  *)
(* carries dim 0 and every edge carries dim 1, whatever the branch.        *)
DimensionTaggingEveryEdge ==
    GraphReturned =>
        /\ \A n \in DOMAIN ret.graph.node :
              "dim" \in ret.graph.node[n].keys /\ ret.graph.node[n].dim = 0
        /\ \A u \in DOMAIN ret.graph.adj : \A v \in DOMAIN ret.graph.adj[u] :
              "dim" \in ret.graph.adj[u][v].keys /\ ret.graph.adj[u][v].dim = 1

(* C5, amended: every node carries dim 0; every edge carries dim 1 when    *)
(* the attributes are preserved, and no dim key at all otherwise.          *)
DimensionTagging ==
    GraphReturned =>
        /\ \A n \in DOMAIN ret.graph.node :
              "dim" \in ret.graph.node[n].keys /\ ret.graph.node[n].dim = 0
        /\ \A u \in DOMAIN ret.graph.adj : \A v \in DOMAIN ret.graph.adj[u] :
              IF Preserving
              THEN "dim" \in ret.graph.adj[u][v].keys /\ ret.graph.adj[u][v].dim = 1
              ELSE "dim" \notin ret.graph.adj[u][v].keys

\* a returned graph with tagged nodes and a tagged edge
DimensionTaggingWitness ==
    /\ GraphReturned
    /\ Preserving
    /\ Len(arg.x) = 2
    /\ has_edge(ret.graph, 0, 1)
    /\ ret.graph.adj[0][1].dim = 1
    /\ ret.graph.node[1].dim = 0

(* C6: undirected symmetry.  In every graph returned with the attributes   *)
(* preserved, an edge (i,j) with features a comes with the edge (j,i) with *)
(* the same features; and when the input columns are symmetric with        *)
(* matching attributes, the edges are the listed pairs and every column's  *)
(* attribute is on its edge, in both directions, unchanged.                *)
UndirectedSymmetry ==
    (GraphReturned /\ Preserving) =>
        /\ \A u \in DOMAIN ret.graph.adj : \A v \in DOMAIN ret.graph.adj[u] :
              /\ has_edge(ret.graph, v, u)
              /\ ret.graph.adj[v][u] = ret.graph.adj[u][v]
        /\ (/\ SetSymmetric(arg.edge_index, arg.edge_attr.rows)
            /\ Matching(arg.edge_index, arg.edge_attr.rows)) =>
              /\ EdgeSet(ret.graph) = ListedPairs(arg.edge_index)
              /\ \A k \in DOMAIN arg.edge_index :
                    LET i == arg.edge_index[k][1]
                        j == arg.edge_index[k][2]
                    IN  /\ has_edge(ret.graph, i, j)
                        /\ ret.graph.adj[i][j] = Dict(Row(arg.edge_attr.rows[k]), 1)
                        /\ ret.graph.adj[j][i] = Dict(Row(arg.edge_attr.rows[k]), 1)

\* edge index [[0,1],[1,0]] with attributes [[5],[5]] came back unchanged
UndirectedSymmetryWitness ==
    /\ GraphReturned
    /\ Preserving
    /\ arg.edge_index = <<<<0, 1>>, <<1, 0>>>>
    /\ arg.edge_attr.rows = <<5, 5>>
    /\ ret.graph.adj[1][0] = Dict(Row(5), 1)

(* C7: no call-to-call instance state.  As claimed: whatever calls have    *)
(* been made, the instance's attributes are those construction left.       *)
NoInstanceState ==
    Constructed =>
        self = Instantiate(ctor.cls, ctor.feature_lifting,
                           ctor.preserve_edge_attr, 0).self

(* C7, amended: once constructed, no step changes the resolved strategy or *)
(* preserve_edge_attr; forward writes no attribute at all, and the only    *)
(* attribute a build_graph call writes is contains_edge_attr.              *)
InstanceStateFrame ==
    [][Constructed =>
          IF op' = "build_graph"
          THEN self' \in {self} \cup
                  {[self EXCEPT !.keys = @ \cup {"contains_edge_attr"},
                                !.contains_edge_attr = b] : b \in BOOLEAN}
          ELSE self' = self]_vars

\* a forward call made after a build_graph call recorded its flag
InstanceStateFrameWitness ==
    /\ op = "forward"
    /\ "contains_edge_attr" \in self.keys
    /\ self.contains_edge_attr

(* C8: strategy resolved once.  A constructed instance has made exactly    *)
(* one registry lookup and holds the one strategy object that lookup       *)
(* created; every forward call invokes exactly that object, exactly once.  *)
StrategyResolvedOnce ==
    /\ Constructed =>
          /\ lookups = 1
          /\ allocated = 1
          /\ self.feature_lifting =
                [cls |-> FEATURE_LIFTINGS[ctor.feature_lifting], id |-> 1]
    /\ op = "forward" => ret.invoked = <<self.feature_lifting>>

\* a forward call in which the resolved sum strategy enriched the descriptor
StrategyResolvedOnceWitness ==
    /\ op = "forward"
    /\ self.feature_lifting.cls = "SumLifting"
    /\ ret.enriched # arg.topology
    /\ lookups = 1

(* C9: attribute carry-forward record.  After a build_graph call that      *)
(* returns, contains_edge_attr is set, and is true exactly when            *)
(* preserve_edge_attr is true and the input has edge attributes; when it   *)
(* is false the graph has one node per feature row and its edges are the   *)
(* listed endpoint pairs, none with any attribute.                         *)
AttributeCarryForward ==
    GraphReturned =>
        /\ "contains_edge_attr" \in self.keys
        /\ self.contains_edge_attr = Preserving
        /\ ~self.contains_edge_attr =>
              /\ DOMAIN ret.graph.node = 0..(Len(arg.x) - 1)
              /\ \A n \in DOMAIN ret.graph.node :
                    ret.graph.node[n].features = Row(arg.x[n + 1])
              /\ EdgeSet(ret.graph) = ListedPairs(arg.edge_index)
              /\ \A u \in DOMAIN ret.graph.adj : \A v \in DOMAIN ret.graph.adj[u] :
                    ret.graph.adj[u][v] = EmptyDict

\* three rows, edge index [[0,1],[1,2]], attributes not preserved
AttributeCarryForwardWitness ==
    /\ GraphReturned
    /\ ~self.preserve_edge_attr
    /\ Len(arg.x) = 3
    /\ arg.edge_index = <<<<0, 1>>, <<1, 2>>>>
    /\ DOMAIN ret.graph.node = {0, 1, 2}
    /\ EdgeSet(ret.graph) = {{0, 1}, {1, 2}}
    /\ ~self.contains_edge_attr

(* C10: multi-edge and self-loop policy.  The edges of every returned      *)
(* graph are exactly the unordered endpoint pairs listed by the columns, a *)
(* self-loop being one edge; the edge count is the number of distinct      *)
(* pairs, below the number of columns whenever a pair is repeated.         *)
MultiEdgePolicy ==
    GraphReturned =>
        /\ EdgeSet(ret.graph) = ListedPairs(arg.edge_index)
        /\ number_of_edges(ret.graph) = Cardinality(ListedPairs(arg.edge_index))
        /\ \A k \in DOMAIN arg.edge_index :
              has_edge(ret.graph, arg.edge_index[k][1], arg.edge_index[k][2])
        /\ (\E k, m \in DOMAIN arg.edge_index :
                /\ k # m
                /\ {arg.edge_index[k][1], arg.edge_index[k][2]}
                     = {arg.edge_index[m][1], arg.edge_index[m][2]})
              => number_of_edges(ret.graph) < Len(arg.edge_index)

\* a self-loop listed twice collapsed to one edge
MultiEdgePolicyWitness ==
    /\ GraphReturned
    /\ arg.edge_index = <<<<0, 0>>, <<0, 0>>>>
    /\ number_of_edges(ret.graph) = 1
    /\ has_edge(ret.graph, 0, 0)

====
